---- MODULE Spec2Model ----
(***************************************************************************)
(* The streaming progress consumer of the journey dashboard:               *)
(* fetchJourneyAnalysis of the App component (the version of the component *)
(* that reads /api/v1/journey-analysis-stream), with the component state   *)
(* it writes and the button that starts it.                                *)
(*                                                                         *)
(* Text is a sequence of units.  A unit is one character (the characters   *)
(* of the event prefix, the line feed, a non-ASCII character) or an        *)
(* indivisible run of characters of a JSON payload.  Bytes are units too:  *)
(* an ASCII unit is its own byte, the one non-ASCII character of the       *)
(* vocabulary is the two bytes LeadByte, ContByte.                         *)
(***************************************************************************)
EXTENDS Integers, Sequences, FiniteSets, TLC

\* Longest response body the server sends, in records.
MaxRecords == 3

Null == "null"
Undefined == "undefined"
\* a numeric field that is absent from the parsed object (undefined)
Absent == -1

NL == "\n"
LeadByte == "0xC3"
ContByte == "0xA9"
EAcute == "U+00E9"
Replacement == "U+FFFD"

\* 'data: ', in two units
Prefix == <<"data", ": ">>

\* realTimeProgress = null
NoProgress == [current |-> Absent, total |-> Absent, percentage |-> Absent, message |-> Null]

-----------------------------------------------------------------------------
(* The wire vocabulary: the records a response body is made of.            *)

Ev(type, step, current, total, percentage, message, data) ==
  [type |-> type, step |-> step, current |-> current, total |-> total,
   percentage |-> percentage, message |-> message, data |-> data]

Names == {"PJ1", "PJ2", "PW", "PL", "CA", "ER", "BAD", "KEEP"}  \* the records of the vocabulary

\* the names whose payload is a JSON text
Events == {"PJ1", "PJ2", "PW", "PL", "CA", "ER"}

\* the text after the event prefix
PayloadText(name) ==
  CASE name = "PJ1" -> <<"{\"type\":\"progress\",\"step\":\"processing_journeys\",",
                         "\"current\":3,\"total\":4,\"percentage\":75,\"message\":\"Processing journeys...\"}">>
    [] name = "PJ2" -> <<"{\"type\":\"progress\",\"step\":\"processing_journeys\",",
                         "\"current\":1,\"total\":4,\"percentage\":90,\"message\":\"Still processing...\"}">>
    [] name = "PW"  -> <<"{\"type\":\"progress\",\"current\":120,\"total\":500,",
                         "\"percentage\":24.0,\"message\":\"Processing journeys...\"}">>
    [] name = "PL"  -> <<"{\"type\":\"progress\",\"message\":\"Caf", EAcute, "\"}">>
    [] name = "CA"  -> <<"{\"type\":\"complete\",", "\"data\":{\"x\":1}}">>
    [] name = "ER"  -> <<"{\"type\":\"error\",", "\"message\":\"upstream service unavailable\"}">>
    [] name = "BAD" -> <<"{\"type\":\"progress\",", "\"current\":">>

\* the object a JSON text of the vocabulary denotes
EventOf(name) ==
  CASE name = "PJ1" -> Ev("progress", "processing_journeys", 3, 4, 75, "Processing journeys...", Undefined)
    [] name = "PJ2" -> Ev("progress", "processing_journeys", 1, 4, 90, "Still processing...", Undefined)
    [] name = "PW"  -> Ev("progress", Undefined, 120, 500, 24, "Processing journeys...", Undefined)
    [] name = "PL"  -> Ev("progress", Undefined, Absent, Absent, Absent, "Cafe-acute", Undefined)
    [] name = "CA"  -> Ev("complete", Undefined, Absent, Absent, Absent, Undefined, "{x:1}")
    [] name = "ER"  -> Ev("error", Undefined, Absent, Absent, Absent, "upstream service unavailable", Undefined)

\* a record of the response body as text, without its line feed
TextLine(name) ==
  IF name = "KEEP" THEN <<": keep-alive">> ELSE Prefix \o PayloadText(name)

\* UTF-8 encoding of a text, as the server writes it
RECURSIVE Encode(_)
Encode(text) ==
  IF text = <<>> THEN <<>>
  ELSE IF Head(text) = EAcute THEN <<LeadByte, ContByte>> \o Encode(Tail(text))
  ELSE <<Head(text)>> \o Encode(Tail(text))

\* the bytes of a whole response body, every record ended by a line feed
RECURSIVE Body(_)
Body(names) ==
  IF names = <<>> THEN <<>>
  ELSE Encode(TextLine(Head(names))) \o <<NL>> \o Body(Tail(names))

-----------------------------------------------------------------------------
(* The platform functions the read loop calls.                             *)

\* JSON.parse on the texts of the vocabulary; any other text is a SyntaxError
JSONparse(text) ==
  IF \E n \in Events : PayloadText(n) = text
  THEN [ok |-> TRUE, value |-> EventOf(CHOOSE n \in Events : PayloadText(n) = text)]
  ELSE [ok |-> FALSE, value |-> Ev(Undefined, Undefined, Absent, Absent, Absent, Undefined, Undefined)]

\* TextDecoder.decode(value, {stream: true}) on the bytes retained from the
\* previous call followed by value: an incomplete character at the end is
\* retained, an ill-formed byte becomes U+FFFD
RECURSIVE Utf8Decode(_)
Utf8Decode(bytes) ==
  IF bytes = <<>> THEN [text |-> <<>>, pending |-> <<>>]
  ELSE IF Head(bytes) = LeadByte
       THEN IF Len(bytes) = 1 THEN [text |-> <<>>, pending |-> bytes]
            ELSE IF bytes[2] = ContByte
                 THEN LET r == Utf8Decode(Tail(Tail(bytes)))
                      IN  [r EXCEPT !.text = <<EAcute>> \o @]
                 ELSE LET r == Utf8Decode(Tail(bytes))
                      IN  [r EXCEPT !.text = <<Replacement>> \o @]
  ELSE LET r == Utf8Decode(Tail(bytes))
       IN  [r EXCEPT !.text = <<IF Head(bytes) = ContByte THEN Replacement ELSE Head(bytes)>> \o @]

decode(pending, value) == Utf8Decode(pending \o value)

\* String.prototype.split('\n'): the pieces between line feeds, at least one
RECURSIVE split(_)
split(text) ==
  IF text = <<>> THEN << <<>> >>
  ELSE LET rest == split(Tail(text))
       IN  IF Head(text) = NL THEN << <<>> >> \o rest
           ELSE << <<Head(text)>> \o Head(rest) >> \o Tail(rest)

startsWith(line, prefix) ==
  Len(line) >= Len(prefix) /\ SubSeq(line, 1, Len(prefix)) = prefix

\* line.substring(start), start counted in units
substring(line, start) == SubSeq(line, start + 1, Len(line))

-----------------------------------------------------------------------------
(* The component state (useState) and the session of fetchJourneyAnalysis. *)

VARIABLES
  histogramData,     \* Null or the data of a complete event
  loading,
  error,             \* <<>> for null, else <<'Failed to fetch data: ', err.message>>
  aiAnalysis,
  loadingProgress,   \* Null or a message
  realTimeProgress,  \* NoProgress for null, else the snapshot object
  pc,                \* where fetchJourneyAnalysis is suspended: "idle", "fetch", "read"
  pending,           \* the bytes the TextDecoder retains between calls
  buffer,            \* let buffer
  names,             \* the records of the response body the server writes
  sent,              \* how many bytes of the body reader.read() has delivered
  events,            \* the objects JSON.parse returned in this session, in order
  updates,           \* the state setter calls of this session, in order
  exit,              \* how the last session left its try block
  aiLoading,
  aipc,              \* where fetchAiAnalysis is suspended: "idle", "fetch", "json"
  inputValue,        \* fromInputValue, toInputValue
  suggestions,       \* fromSuggestions, toSuggestions
  hint,              \* fromHint, toHint
  timerRef,          \* debounceTimerFrom.current, debounceTimerTo.current: 0 for null
  timers,            \* the timeouts set and neither expired nor cleared
  lookups,           \* the calls of fetchStationSuggestions that are suspended
  nextTimer,         \* the id setTimeout returns next
  issued,            \* the autocomplete requests sent, in order
  applied            \* per field, the requests whose data was displayed, in order

streamVars == <<histogramData, loading, error, aiAnalysis, loadingProgress, realTimeProgress,
                pc, pending, buffer, names, sent, events, updates, exit>>
aiVars == <<aiLoading, aipc>>
stationVars == <<inputValue, suggestions, hint, timerRef, timers, lookups, nextTimer,
                 issued, applied>>

vars == <<streamVars, aiVars, stationVars>>

\* the station fields of the form
Fields == {"from", "to"}

\* the bytes of the body not yet delivered, and those delivered
wire == SubSeq(Body(names), sent + 1, Len(Body(names)))
delivered == SubSeq(Body(names), 1, sent)

\* a state setter call: the source line of the call and its argument, a
\* string (str) or a progress snapshot (str its message, num its numbers)
Update(at, str, num) == [at |-> at, str |-> str, num |-> num]

\* the part of the state one iteration of the read loop works on
Session ==
  [pending |-> pending, buffer |-> buffer, histogramData |-> histogramData,
   loadingProgress |-> loadingProgress, realTimeProgress |-> realTimeProgress,
   events |-> events, updates |-> updates]

\* how a block of code ended: normally, or by a throw of Error(message)
Normal(s) == [s |-> s, thrown |-> FALSE, message |-> Null]
Thrown(s, message) == [s |-> s, thrown |-> TRUE, message |-> message]

\* the progress branch as it would be without the test of data.step
OnProgressAnyStep(s, data) ==
  IF data.total # Absent /\ data.total # 0
  THEN LET snap == [current |-> data.current, total |-> data.total,
                    percentage |-> data.percentage, message |-> data.message]
       IN  [s EXCEPT !.realTimeProgress = snap,
                     !.updates = Append(@, Update(287, data.message,
                                   <<data.current, data.total, data.percentage>>))]
  ELSE [s EXCEPT !.loadingProgress = data.message,
                 !.updates = Append(@, Update(294, data.message, <<>>))]

\* the progress branch as it would be if it added the counts to the snapshot
OnProgressAccumulate(s, data) ==
  IF data.step = "processing_journeys" /\ data.total # Absent /\ data.total # 0
  THEN LET had  == IF s.realTimeProgress = NoProgress THEN 0 ELSE s.realTimeProgress.current
           snap == [current |-> had + data.current, total |-> data.total,
                    percentage |-> data.percentage, message |-> data.message]
       IN  [s EXCEPT !.realTimeProgress = snap,
                     !.updates = Append(@, Update(287, data.message,
                                   <<data.current, data.total, data.percentage>>))]
  ELSE [s EXCEPT !.loadingProgress = data.message,
                 !.updates = Append(@, Update(294, data.message, <<>>))]

\* if (data.type === 'progress') { ... }: setRealTimeProgress({...}) when
\* data.step === 'processing_journeys' && data.total, else
\* setLoadingProgress(data.message)
OnProgress(s, data) ==
  IF data.step = "processing_journeys" /\ data.total # Absent /\ data.total # 0
  THEN LET snap == [current |-> data.current, total |-> data.total,
                    percentage |-> data.percentage, message |-> data.message]
       IN  [s EXCEPT !.realTimeProgress = snap,
                     !.updates = Append(@, Update(287, data.message,
                                   <<data.current, data.total, data.percentage>>))]
  ELSE [s EXCEPT !.loadingProgress = data.message,
                 !.updates = Append(@, Update(294, data.message, <<>>))]

\* the complete branch as it would be without setRealTimeProgress(null)
OnCompleteKeepsSnapshot(s, data) ==
  [s EXCEPT !.histogramData = data.data,
            !.loadingProgress = Null,
            !.updates = @ \o <<Update(297, data.data, <<>>), Update(298, Null, <<>>)>>]

\* else if (data.type === 'complete') { ... }
OnComplete(s, data) ==
  [s EXCEPT !.histogramData = data.data,
            !.loadingProgress = Null,
            !.realTimeProgress = NoProgress,
            !.updates = @ \o <<Update(297, data.data, <<>>), Update(298, Null, <<>>),
                               Update(299, Null, <<>>)>>]

\* else if (data.type === 'error') { throw new Error(data.message); }
OnError(s, data) == Thrown(s, data.message)

\* the body of the inner try for one 'data: ' line
TryLine(s, line) ==
  LET parsed == JSONparse(substring(line, Len(Prefix)))
      data   == parsed.value
      s1     == [s EXCEPT !.events = Append(@, data)]
  IN  IF ~parsed.ok THEN Thrown(s, "SyntaxError")
      ELSE CASE data.type = "progress" -> Normal(OnProgress(s1, data))
             [] data.type = "complete" -> Normal(OnComplete(s1, data))
             [] data.type = "error"    -> OnError(s1, data)
             [] OTHER                  -> Normal(s1)

\* the inner catch as it would be if it rethrew what it caught
CatchParseErrorRethrow(r) == r

\* catch (parseError) { console.warn(...) }: whatever the inner try threw
\* is logged and the for loop goes on
CatchParseError(r) == Normal(r.s)

\* the iteration as it would be if a line without the prefix were an error
ForLineStrict(s, line) ==
  IF startsWith(line, Prefix) THEN CatchParseError(TryLine(s, line))
  ELSE Thrown(s, "unexpected line")

\* one iteration of for (const line of lines)
ForLine(s, line) ==
  IF startsWith(line, Prefix) THEN CatchParseError(TryLine(s, line))
  ELSE Normal(s)

\* the for loop as it would be if only lines[0] were handled
ForLinesFirstOnly(s, lines) ==
  IF lines = <<>> THEN Normal(s) ELSE ForLine(s, Head(lines))

\* the for loop as it would be if it went through lines from the last one
RECURSIVE ForLinesReversed(_, _)
ForLinesReversed(s, lines) ==
  IF lines = <<>> THEN Normal(s)
  ELSE LET r == ForLine(s, lines[Len(lines)])
       IN  IF r.thrown THEN r ELSE ForLinesReversed(r.s, SubSeq(lines, 1, Len(lines) - 1))

\* the for loop; a throw that leaves an iteration ends the loop
RECURSIVE ForLines(_, _)
ForLines(s, lines) ==
  IF lines = <<>> THEN Normal(s)
  ELSE LET r == ForLine(s, Head(lines))
       IN  IF r.thrown THEN r ELSE ForLines(r.s, Tail(lines))

\* the remainder as it would be if the last piece were not kept
PopOrDropped(lines) == <<>>

\* the remainder as it would be with lines.shift() for lines.pop()
PopOrFirst(lines) == lines[1]

\* lines.pop() || '': the last piece, which has no line feed after it
PopOr(lines) == lines[Len(lines)]

\* the loop body as it would be with buffer = decoder.decode(...) for
\* buffer += decoder.decode(...)
ProcessChunkNoCarry(s, value) ==
  LET d     == decode(s.pending, value)
      lines == split(d.text)
  IN  ForLines([s EXCEPT !.pending = d.pending, !.buffer = PopOr(lines)],
               SubSeq(lines, 1, Len(lines) - 1))

\* the body of while (true) after a read that delivered value
ProcessChunk(s, value) ==
  LET d     == decode(s.pending, value)
      lines == split(s.buffer \o d.text)
  IN  ForLines([s EXCEPT !.pending = d.pending, !.buffer = PopOr(lines)],
               SubSeq(lines, 1, Len(lines) - 1))

\* the setter calls before the request is sent
StartUpdates ==
  << Update(232, "true", <<>>), Update(233, Null, <<>>), Update(234, Null, <<>>),
     Update(235, "Initializing request...", <<>>), Update(236, Null, <<>>),
     Update(251, "Connecting to streaming service...", <<>>) >>

\* catch (err) { setError(...) } of the outer try
CatchUpdates(message) == << Update(318, message, <<>>) >>

\* finally { ... }
FinallyUpdates ==
  << Update(320, "false", <<>>), Update(321, Null, <<>>), Update(322, Null, <<>>) >>

\* the response bodies the server may write
Bodies == UNION { [1..n -> Names] : n \in 0..MaxRecords }

-----------------------------------------------------------------------------
Init ==
  /\ histogramData = Null
  /\ loading = FALSE
  /\ error = <<>>
  /\ aiAnalysis = Null
  /\ loadingProgress = Null
  /\ realTimeProgress = NoProgress
  /\ pc = "idle"
  /\ pending = <<>>
  /\ buffer = <<>>
  /\ names = <<>>
  /\ sent = 0
  /\ events = <<>>
  /\ updates = <<>>
  /\ exit = "none"
  /\ aiLoading = FALSE
  /\ aipc = "idle"
  /\ inputValue = [f \in Fields |-> IF f = "from" THEN "EUS" ELSE "KGL"]
  /\ suggestions = [f \in Fields |-> <<>>]
  /\ hint = [f \in Fields |-> ""]
  /\ timerRef = [f \in Fields |-> 0]
  /\ timers = {}
  /\ lookups = {}
  /\ nextTimer = 1
  /\ issued = <<>>
  /\ applied = [f \in Fields |-> <<>>]

\* the buttons as they would be if aiLoading did not disable them
ButtonsDisabledLoadingOnly == loading

\* disabled={loading || aiLoading} of both action buttons
ButtonsDisabled == loading \/ aiLoading

\* the Analyze button, enabled: fetchJourneyAnalysis up to await fetch(...)
fetchJourneyAnalysis ==
  /\ ~ButtonsDisabled
  /\ loading' = TRUE
  /\ error' = <<>>
  /\ aiAnalysis' = Null
  /\ loadingProgress' = "Connecting to streaming service..."
  /\ realTimeProgress' = NoProgress
  /\ pc' = "fetch"
  /\ pending' = <<>>
  /\ buffer' = <<>>
  /\ names' = <<>>
  /\ sent' = 0
  /\ events' = <<>>
  /\ updates' = StartUpdates
  /\ exit' = "none"
  /\ UNCHANGED histogramData
  /\ UNCHANGED <<aiVars, stationVars>>

\* finally as it would be without setRealTimeProgress(null)
FinallyKeepsSnapshot(ups, how) ==
  /\ loading' = FALSE
  /\ loadingProgress' = Null
  /\ realTimeProgress' = realTimeProgress
  /\ updates' = ups \o FinallyUpdates
  /\ pc' = "idle"
  /\ exit' = how

\* finally { ... } and the return
Finally(ups, how) ==
  /\ loading' = FALSE
  /\ loadingProgress' = Null
  /\ realTimeProgress' = NoProgress
  /\ updates' = ups \o FinallyUpdates
  /\ pc' = "idle"
  /\ exit' = how

\* the outer catch as it would be without its setError call
CatchSilent(ups, how, message) ==
  /\ error' = <<>>
  /\ Finally(ups, how)

\* catch (err) { setError(...) }, then finally
Catch(ups, how, message) ==
  /\ error' = <<"Failed to fetch data: ", message>>
  /\ Finally(ups \o CatchUpdates(message), how)

\* await fetch(...) rejects: the connection could not be made
FetchRejects ==
  /\ pc = "fetch"
  /\ Catch(updates, "fetchRejected", "Failed to fetch")
  /\ UNCHANGED <<histogramData, aiAnalysis, pending, buffer, names, sent, events>>
  /\ UNCHANGED <<aiVars, stationVars>>

\* the response has a non-success status: if (!response.ok) throw ...
ResponseNotOk ==
  /\ pc = "fetch"
  /\ Catch(updates, "httpStatus", "HTTP error! status: 500")
  /\ UNCHANGED <<histogramData, aiAnalysis, pending, buffer, names, sent, events>>
  /\ UNCHANGED <<aiVars, stationVars>>

\* the response has a success status: reader, decoder and buffer are made
ResponseOk ==
  /\ pc = "fetch"
  /\ names' \in Bodies
  /\ sent' = 0
  /\ pending' = <<>>
  /\ buffer' = <<>>
  /\ pc' = "read"
  /\ UNCHANGED <<histogramData, loading, error, aiAnalysis, loadingProgress, realTimeProgress,
                 events, updates, exit>>
  /\ UNCHANGED <<aiVars, stationVars>>

\* await reader.read() resolves with the next chunk, of any size, and the
\* loop body runs on it
ReadChunk ==
  /\ pc = "read"
  /\ \E n \in 1..Len(wire) :
       \E r \in {ProcessChunk(Session, SubSeq(wire, 1, n))} :
           /\ sent' = sent + n
           /\ pending' = r.s.pending
           /\ buffer' = r.s.buffer
           /\ events' = r.s.events
           /\ histogramData' = r.s.histogramData
           /\ IF r.thrown
              THEN Catch(r.s.updates, "thrown", r.message)
              ELSE /\ loadingProgress' = r.s.loadingProgress
                   /\ realTimeProgress' = r.s.realTimeProgress
                   /\ updates' = r.s.updates
                   /\ UNCHANGED <<loading, error, pc, exit>>
  /\ UNCHANGED <<aiAnalysis, names>>
  /\ UNCHANGED <<aiVars, stationVars>>

\* await reader.read() resolves with done: break, then finally.  The server
\* ends the body after its last line feed, or right before it when it does
\* not terminate its last line, or inside a character when its output is
\* cut off there.
ReadDone ==
  /\ pc = "read"
  /\ \/ wire = <<>>
     \/ wire = <<NL>>
     \/ wire # <<>> /\ Head(wire) = ContByte
  /\ Finally(updates, "done")
  /\ UNCHANGED <<histogramData, error, aiAnalysis, pending, buffer, names, sent, events>>
  /\ UNCHANGED <<aiVars, stationVars>>

\* await reader.read() rejects: the connection broke mid-stream
ReadRejects ==
  /\ pc = "read"
  /\ Catch(updates, "readRejected", "network error")
  /\ UNCHANGED <<histogramData, aiAnalysis, pending, buffer, names, sent, events>>
  /\ UNCHANGED <<aiVars, stationVars>>

\* what fetchAiAnalysis leaves alone in every step
aiFrame == <<loading, realTimeProgress, pc, pending, buffer, names, sent, events, updates,
             exit, stationVars>>

\* the AI Analysis button, enabled: fetchAiAnalysis up to await fetch(...).
\* The locals of the journey session that has returned are gone, and the
\* history kept of it (events, updates, exit) is dropped with them.
fetchAiAnalysis ==
  /\ ~ButtonsDisabled
  /\ aiLoading' = TRUE
  /\ error' = <<>>
  /\ loadingProgress' = "Generating AI analysis..."
  /\ aipc' = "fetch"
  /\ pending' = <<>> /\ buffer' = <<>> /\ names' = <<>> /\ sent' = 0
  /\ events' = <<>> /\ updates' = <<>> /\ exit' = "none"
  /\ UNCHANGED <<histogramData, aiAnalysis, loading, realTimeProgress, pc, stationVars>>

\* finally { setAiLoading(false); setLoadingProgress(null); } and the return
AiFinally ==
  /\ aiLoading' = FALSE
  /\ loadingProgress' = Null
  /\ aipc' = "idle"

\* catch (err) { setError(...) }, then finally
AiCatch(message) ==
  /\ error' = <<"Failed to fetch AI analysis: ", message>>
  /\ AiFinally
  /\ UNCHANGED <<histogramData, aiAnalysis, aiFrame>>

\* await fetch(...) rejects
AiFetchRejects ==
  /\ aipc = "fetch"
  /\ AiCatch("Failed to fetch")

\* if (!response.ok) throw ...
AiResponseNotOk ==
  /\ aipc = "fetch"
  /\ AiCatch("HTTP error! status: 500")

\* the response has a success status: up to await response.json()
AiResponseOk ==
  /\ aipc = "fetch"
  /\ aipc' = "json"
  /\ UNCHANGED <<histogramData, error, aiAnalysis, loadingProgress, aiLoading, aiFrame>>

\* await response.json() resolves: both results are stored, then finally
AiJsonResolves ==
  /\ aipc = "json"
  /\ histogramData' = "journey_data"
  /\ aiAnalysis' = "ai_analysis"
  /\ AiFinally
  /\ UNCHANGED <<error, aiFrame>>

\* await response.json() rejects: the body is not JSON
AiJsonRejects ==
  /\ aipc = "json"
  /\ AiCatch("SyntaxError")

Next ==
  \/ fetchJourneyAnalysis
  \/ FetchRejects
  \/ ResponseNotOk
  \/ ResponseOk
  \/ ReadChunk
  \/ ReadDone
  \/ ReadRejects

Spec == Init /\ [][Next]_vars

-----------------------------------------------------------------------------
(* The station fields: debounced lookups of the autocomplete service.      *)

MaxTimers == 2    \* the timeouts set in a run
MaxLookups == 2   \* the autocomplete requests sent in a run

\* what the user may have typed in a station field
Texts == {"", "E", "Q"}

\* the display names the autocomplete service returns for a query
Suggest(query) ==
  CASE query = "E"   -> <<"Ealing Broadway (EAL)", "London Euston (EUS)">>
    [] query = "EUS" -> <<"London Euston (EUS)">>
    [] query = "KGL" -> <<"Kings Langley (KGL)">>
    [] OTHER         -> <<>>

\* fetchStationSuggestions(query, setterFunction, setHintFunction) up to
\* its return or its await fetch(...), called for field f
fetchStationSuggestions(query, f) ==
  IF query = ""
  THEN /\ suggestions' = [suggestions EXCEPT ![f] = <<>>]
       /\ hint' = [hint EXCEPT ![f] = ""]
       /\ UNCHANGED <<lookups, issued>>
  ELSE /\ lookups' = lookups \cup {[seq |-> Len(issued) + 1, field |-> f,
                                    query |-> query, stage |-> "fetch"]}
       /\ issued' = Append(issued, [field |-> f, query |-> query,
                                    typed |-> inputValue[f]])
       /\ UNCHANGED <<suggestions, hint>>

\* the change handler as it would be without clearTimeout
handleInputChangeNoClear(f, value) ==
  /\ value # inputValue[f]
  /\ value = "" \/ nextTimer <= MaxTimers
  /\ inputValue' = [inputValue EXCEPT ![f] = value]
  /\ IF value = ""
     THEN /\ hint' = [hint EXCEPT ![f] = ""]
          /\ suggestions' = [suggestions EXCEPT ![f] = <<>>]
          /\ UNCHANGED <<timers, timerRef, nextTimer>>
     ELSE /\ timers' = timers \cup {[id |-> nextTimer, field |-> f, value |-> value]}
          /\ timerRef' = [timerRef EXCEPT ![f] = nextTimer]
          /\ nextTimer' = nextTimer + 1
          /\ UNCHANGED <<hint, suggestions>>
  /\ UNCHANGED <<lookups, issued, applied, streamVars, aiVars>>

\* handleFromInputChange(value), handleToInputChange(value): the input of
\* field f changes to value
handleInputChange(f, value) ==
  /\ value # inputValue[f]
  /\ value = "" \/ nextTimer <= MaxTimers
  /\ inputValue' = [inputValue EXCEPT ![f] = value]
  /\ LET kept == {t \in timers : t.id # timerRef[f]}
     IN  IF value = ""
         THEN /\ timers' = kept
              /\ hint' = [hint EXCEPT ![f] = ""]
              /\ suggestions' = [suggestions EXCEPT ![f] = <<>>]
              /\ UNCHANGED <<timerRef, nextTimer>>
         ELSE /\ timers' = kept \cup {[id |-> nextTimer, field |-> f, value |-> value]}
              /\ timerRef' = [timerRef EXCEPT ![f] = nextTimer]
              /\ nextTimer' = nextTimer + 1
              /\ UNCHANGED <<hint, suggestions>>
  /\ UNCHANGED <<lookups, issued, applied, streamVars, aiVars>>

\* onChange of a station input
InputChange == \E f \in Fields, value \in Texts : handleInputChange(f, value)

\* a timeout expires after 300 ms: its callback calls fetchStationSuggestions
\* with the value it was set for
TimerExpires ==
  \E t \in timers :
    /\ Len(issued) < MaxLookups
    /\ timers' = timers \ {t}
    /\ fetchStationSuggestions(t.value, t.field)
    /\ UNCHANGED <<inputValue, timerRef, nextTimer, applied, streamVars, aiVars>>

\* onFocus of a station input that is not empty
onFocus ==
  \E f \in Fields :
    /\ inputValue[f] # ""
    /\ Len(issued) < MaxLookups
    /\ fetchStationSuggestions(inputValue[f], f)
    /\ UNCHANGED <<inputValue, timerRef, timers, nextTimer, applied, streamVars, aiVars>>

\* what a step of a suspended lookup leaves alone
lookupFrame == <<inputValue, timerRef, timers, nextTimer, issued, streamVars, aiVars>>

\* await fetch(...) rejects: catch (err) { ...; setHintFunction('') }
LookupFetchRejects ==
  \E l \in lookups :
    /\ l.stage = "fetch"
    /\ lookups' = lookups \ {l}
    /\ hint' = [hint EXCEPT ![l.field] = ""]
    /\ UNCHANGED <<suggestions, applied, lookupFrame>>

\* the response has a non-success status: nothing is set
LookupResponseNotOk ==
  \E l \in lookups :
    /\ l.stage = "fetch"
    /\ lookups' = lookups \ {l}
    /\ UNCHANGED <<suggestions, hint, applied, lookupFrame>>

\* if (response.ok): up to await response.json()
LookupResponseOk ==
  \E l \in lookups :
    /\ l.stage = "fetch"
    /\ lookups' = (lookups \ {l}) \cup {[l EXCEPT !.stage = "json"]}
    /\ UNCHANGED <<suggestions, hint, applied, lookupFrame>>

\* await response.json() resolves: the data is displayed, the hint is
\* the first display name
LookupJsonResolves ==
  \E l \in lookups :
    /\ l.stage = "json"
    /\ lookups' = lookups \ {l}
    /\ LET data == Suggest(l.query)
       IN  /\ suggestions' = [suggestions EXCEPT ![l.field] = data]
           /\ hint' = [hint EXCEPT ![l.field] = IF Len(data) > 0 THEN data[1] ELSE ""]
    /\ applied' = [applied EXCEPT ![l.field] = Append(@, l.seq)]
    /\ UNCHANGED lookupFrame

\* await response.json() rejects: catch (err) { ...; setHintFunction('') }
LookupJsonRejects ==
  \E l \in lookups :
    /\ l.stage = "json"
    /\ lookups' = lookups \ {l}
    /\ hint' = [hint EXCEPT ![l.field] = ""]
    /\ UNCHANGED <<suggestions, applied, lookupFrame>>

NextStations ==
  \/ InputChange
  \/ TimerExpires
  \/ onFocus
  \/ LookupFetchRejects
  \/ LookupResponseNotOk
  \/ LookupResponseOk
  \/ LookupJsonResolves
  \/ LookupJsonRejects

SpecStations == Init /\ [][NextStations]_vars

-----------------------------------------------------------------------------
\* both handlers of the action buttons
NextUi ==
  \/ fetchJourneyAnalysis
  \/ FetchRejects
  \/ ResponseNotOk
  \/ ResponseOk
  \/ ReadChunk
  \/ ReadDone
  \/ ReadRejects
  \/ fetchAiAnalysis
  \/ AiFetchRejects
  \/ AiResponseNotOk
  \/ AiResponseOk
  \/ AiJsonResolves
  \/ AiJsonRejects

SpecUi == Init /\ [][NextUi]_vars

-----------------------------------------------------------------------------
(* What a session delivered, read off its setter calls.                    *)

\* setHistogramData(data.data) of the complete branch: a success
IsSuccess(u) == u.at = 297
\* setError(...) of the outer catch: a failure
IsFailure(u) == u.at = 318
IsTerminal(u) == IsSuccess(u) \/ IsFailure(u)
\* a progress update carrying event data
IsProgress(u) == u.at = 287 \/ u.at = 294

HasType(evs, type) == \E i \in 1..Len(evs) : evs[i].type = type
HasTerminalEvent(evs) == HasType(evs, "complete") \/ HasType(evs, "error")

\* the session has returned
Finished == pc = "idle" /\ exit # "none"

\* the records of the body whose line feed has been delivered
RECURSIVE CountNL(_)
CountNL(bytes) ==
  IF bytes = <<>> THEN 0
  ELSE (IF Head(bytes) = NL THEN 1 ELSE 0) + CountNL(Tail(bytes))

\* the events the server wrote in the given records, in order
RECURSIVE EventsOf(_)
EventsOf(ns) ==
  IF ns = <<>> THEN <<>>
  ELSE (IF Head(ns) \in Events THEN <<EventOf(Head(ns))>> ELSE <<>>) \o EventsOf(Tail(ns))

\* the session as it is when the read loop is entered
StartSession ==
  [pending |-> <<>>, buffer |-> <<>>, histogramData |-> Null,
   loadingProgress |-> "Connecting to streaming service...", realTimeProgress |-> NoProgress,
   events |-> <<>>, updates |-> StartUpdates]

-----------------------------------------------------------------------------
\* C1: chunk-boundary invariance.  However the bytes delivered so far were
\* cut into chunks, the parsed events, the setter calls, the progress state
\* and the line buffer are those of the read loop fed the same bytes as one
\* single chunk.
C1_ChunkBoundaryInvariance ==
  pc = "read" =>
    LET one == ProcessChunk(StartSession, delivered).s
    IN  /\ events = one.events
        /\ updates = one.updates
        /\ loadingProgress = one.loadingProgress
        /\ realTimeProgress = one.realTimeProgress
        /\ buffer = one.buffer
        /\ pending = one.pending

\* a chunk ended inside a character of a JSON payload, after an earlier
\* record had been dispatched
C1_Witness ==
  /\ pc = "read"
  /\ pending = <<LeadByte>>
  /\ buffer = Prefix \o <<PayloadText("PL")[1]>>
  /\ Len(events) >= 1

\* C2: an event of type error settles the session as failure with the
\* event's message, and no later record is processed.
C2_ErrorEventSettles ==
  \A i \in 1..Len(events) :
    events[i].type = "error" =>
      /\ i = Len(events)
      /\ pc = "idle"
      /\ error = <<"Failed to fetch data: ", events[i].message>>

\* C3: a stream that ends without a complete or error event settles the
\* session as failure.
C3_EndWithoutTerminalFails ==
  (Finished /\ exit = "done" /\ ~HasTerminalEvent(events)) => error # <<>>

\* C4: after a complete event nothing more is delivered in the session: the
\* three setter calls of the complete branch are the last ones while the
\* stream is read.
C4_AtMostOnceSettlement ==
  (pc = "read" /\ HasType(events, "complete")) =>
    \E k \in 1..Len(updates) :
      /\ IsSuccess(updates[k])
      /\ \A j \in 1..(k - 1) : ~IsSuccess(updates[j])
      /\ Len(updates) = k + 2
      /\ histogramData = updates[k].str
      /\ loadingProgress = Null
      /\ realTimeProgress = NoProgress

\* C5: a data record whose payload is not JSON neither ends the session nor
\* sets the error state, and the events parsed are exactly the events the
\* server wrote in the records delivered so far, in order.
C5_MalformedRecordSkipped ==
  (\E i \in 1..Len(names) : names[i] = "BAD") =>
    /\ exit # "thrown"
    /\ (pc = "read") =>
         /\ error = <<>>
         /\ events = EventsOf(SubSeq(names, 1, CountNL(delivered)))
    /\ (Finished /\ exit = "done") =>
         events = EventsOf(SubSeq(names, 1, CountNL(delivered)))

\* the stream ended after a malformed record that stood between two events,
\* all three delivered in one chunk or not
C5_Witness ==
  /\ Finished /\ exit = "done"
  /\ Len(names) = 3 /\ names[1] \in Events /\ names[2] = "BAD" /\ names[3] \in Events
  /\ sent = Len(Body(names))
  /\ Len(events) = 2
  /\ error = <<>>

\* C6: the setter calls of a session are progress updates followed by one
\* terminal outcome: no progress update comes after a terminal outcome, and
\* no second outcome either.
C6_ProgressThenOneOutcome ==
  \A i, j \in 1..Len(updates) :
    (i < j /\ IsTerminal(updates[i])) => (~IsProgress(updates[j]) /\ ~IsTerminal(updates[j]))

\* a step that settles the session as cancelled
CancelStep == Next /\ pc' = "idle" /\ exit' = "cancelled"

\* C7: a session whose stream is in flight can be cancelled, and then it is
\* settled as cancelled.
C7_CancelInFlight ==
  pc = "read" => ENABLED CancelStep

\* C8: where the stream is about to end, cancellation and natural completion
\* race: either may come first and settle the session.
C8_CancelRacesCompletion ==
  (pc = "read" /\ wire = <<>>) => (ENABLED ReadDone /\ ENABLED CancelStep)

\* C9: a session that ended by a transport failure has its error state set
\* from that failure.
C9_TransportFailureSurfaced ==
  (Finished /\ exit \in {"fetchRejected", "httpStatus", "readRejected"}) =>
    /\ error # <<>>
    /\ error[1] = "Failed to fetch data: "
    /\ \E i \in 1..Len(updates) : IsFailure(updates[i]) /\ updates[i].str = error[2]

\* the connection broke mid-stream, after progress and before any terminal
\* event
C9_Witness ==
  /\ Finished /\ exit = "readRejected"
  /\ sent > 0 /\ sent < Len(Body(names))
  /\ HasType(events, "progress") /\ ~HasTerminalEvent(events)
  /\ error = <<"Failed to fetch data: ", "network error">>

\* C10: a last data line sent without its line feed is processed at
\* end-of-stream: its event is delivered.
C10_RemainderProcessed ==
  (/\ Finished /\ exit = "done"
   /\ names # <<>> /\ names[Len(names)] \in Events
   /\ sent = Len(Body(names)) - 1) =>
    /\ events # <<>>
    /\ events[Len(events)] = EventOf(names[Len(names)])

-----------------------------------------------------------------------------
\* the records of the body whose line feed has been delivered
Arrived == SubSeq(names, 1, CountNL(delivered))

\* how many of the given setter calls deliver a result
Successes(ups) == Cardinality({i \in 1..Len(ups) : IsSuccess(ups[i])})

\* how many complete records are among the given records
Completes(ns) == Cardinality({i \in 1..Len(ns) : ns[i] = "CA"})

\* C11: whenever the loop awaits a read, the events parsed are exactly the
\* events of the records whose line feed has arrived, one each and whole,
\* however many chunks their text came in; the part of a record that has
\* arrived without its line feed has produced no event; and one result was
\* delivered per complete record, with its full payload.
C11_SplitRecordOneEvent ==
  pc = "read" =>
    /\ events = EventsOf(Arrived)
    /\ Successes(updates) = Completes(Arrived)
    /\ (Completes(Arrived) > 0) => (histogramData = "{x:1}")

\* the first half of a complete record, cut inside its JSON payload, has
\* arrived: it is held in the buffer and nothing was dispatched
C11_Witness ==
  /\ pc = "read"
  /\ names # <<>> /\ names[1] = "CA"
  /\ sent = Len(Prefix) + 1
  /\ buffer = Prefix \o <<PayloadText("CA")[1]>>
  /\ events = <<>>
  /\ updates = StartUpdates

\* the setter calls the dispatch of one record makes
UpdatesOfRecord(name) ==
  CASE name = "PJ1" -> <<Update(287, "Processing journeys...", <<3, 4, 75>>)>>
    [] name = "PJ2" -> <<Update(287, "Still processing...", <<1, 4, 90>>)>>
    [] name = "PW"  -> <<Update(294, "Processing journeys...", <<>>)>>
    [] name = "PL"  -> <<Update(294, "Cafe-acute", <<>>)>>
    [] name = "CA"  -> <<Update(297, "{x:1}", <<>>), Update(298, Null, <<>>), Update(299, Null, <<>>)>>
    [] OTHER        -> <<>>

RECURSIVE UpdatesOfRecords(_)
UpdatesOfRecords(ns) ==
  IF ns = <<>> THEN <<>> ELSE UpdatesOfRecord(Head(ns)) \o UpdatesOfRecords(Tail(ns))

\* C12: the records that have arrived were dispatched in their order, also
\* when several of them came in one chunk, and while no terminal event has
\* come the session is not settled: it is still reading and loading, with
\* no error and no result delivered.
C12_RecordsOfChunkInOrder ==
  (pc = "read" \/ exit = "thrown") =>
    /\ pc = "read"
    /\ updates = StartUpdates \o UpdatesOfRecords(Arrived)
    /\ ~HasTerminalEvent(events) =>
         /\ loading /\ error = <<>>
         /\ \A i \in 1..Len(updates) : ~IsTerminal(updates[i])

\* two progress records have been delivered and dispatched, in order, and
\* the source has not ended yet
C12_Witness ==
  /\ pc = "read"
  /\ names = <<"PJ2", "PJ1">>
  /\ sent = Len(Body(names))
  /\ updates = StartUpdates \o UpdatesOfRecord("PJ2") \o UpdatesOfRecord("PJ1")
  /\ loading /\ error = <<>>

\* C13: once a complete event has been processed the session has stopped
\* consuming: the event is the last one parsed and the function is no longer
\* in its read loop.
C13_StopsOnComplete ==
  \A i \in 1..Len(events) :
    events[i].type = "complete" => (i = Len(events) /\ pc # "read")

\* C14: no session delivers both a result and a failure.
C14_NotSuccessAndFailure ==
  ~ \E i, j \in 1..Len(updates) : IsSuccess(updates[i]) /\ IsFailure(updates[j])

\* what the finally block of another invocation of fetchJourneyAnalysis
\* writes, the invocation in flight left as it is
CleanupOfOther ==
  /\ loading' = FALSE
  /\ loadingProgress' = Null
  /\ realTimeProgress' = NoProgress
  /\ UNCHANGED <<histogramData, error, aiAnalysis, pc, pending, buffer, names, sent,
                 events, updates, exit>>
  /\ UNCHANGED <<aiVars, stationVars>>

C16_LeftoverBytesFail ==
  (Finished /\ exit = "done" /\ sent > 0 /\ delivered[sent] = LeadByte) =>
    (pending = <<>> /\ error # <<>>)

\* the part of a text after its last line feed
RECURSIVE AfterLastNL(_)
AfterLastNL(text) ==
  IF text = <<>> THEN <<>>
  ELSE IF text[Len(text)] = NL THEN <<>>
  ELSE Append(AfterLastNL(SubSeq(text, 1, Len(text) - 1)), text[Len(text)])

\* C17: whenever the loop awaits a read, buffer holds no line feed and is
\* exactly the text received after the last line feed received.
C17_LineBufferInvariant ==
  pc = "read" =>
    /\ \A i \in 1..Len(buffer) : buffer[i] # NL
    /\ buffer = AfterLastNL(Utf8Decode(delivered).text)

\* records have been consumed and the beginning of the next one is held
C17_Witness ==
  /\ pc = "read"
  /\ CountNL(delivered) >= 2
  /\ Len(buffer) >= 2

\* the number of bytes of the first k records of the body
EndOf(k) == Len(Body(SubSeq(names, 1, k)))

\* the session as it is after the first k records of the body
After(k) == ProcessChunk(StartSession, SubSeq(Body(names), 1, EndOf(k))).s

\* C18: a complete line that does not start with 'data: ' is discarded: when
\* it has been handled the loop goes on reading and the parsed events, the
\* setter calls made, the progress, the error and the loading flag are what
\* they were before the line.
C18_OtherLinesDiscarded ==
  \A k \in 1..Len(names) :
    (names[k] = "KEEP" /\ sent = EndOf(k) /\ exit \notin {"done", "readRejected"}) =>
      /\ pc = "read"
      /\ loading /\ error = <<>>
      /\ LET before == After(k - 1)
         IN  /\ events = before.events
             /\ updates = before.updates
             /\ loadingProgress = before.loadingProgress
             /\ realTimeProgress = before.realTimeProgress

\* a keep-alive line has been handled after a progress snapshot, which is
\* still held
C18_Witness ==
  /\ pc = "read"
  /\ Len(names) >= 2 /\ names[1] = "PJ1" /\ names[2] = "KEEP"
  /\ sent = EndOf(2)
  /\ realTimeProgress = [current |-> 3, total |-> 4, percentage |-> 75,
                         message |-> "Processing journeys..."]

\* the event parsed last
LastEvent == events[Len(events)]

\* the setter call made last
LastUpdate == updates[Len(updates)]

\* the last event is a progress event and the loop awaits the next read
AfterProgress == pc = "read" /\ events # <<>> /\ LastEvent.type = "progress"

ShownMessage ==
  IF realTimeProgress # NoProgress THEN realTimeProgress.message ELSE loadingProgress

\* {realTimeProgress && ( ... current/total journeys processed (percentage%) )}
ShownNumeric == realTimeProgress # NoProgress

\* C20: after a progress event with no total the message shown is that
\* event's message and no numeric progress is shown, also when a countable
\* snapshot was delivered earlier in the session.
C20_LabelShownWithoutNumbers ==
  (AfterProgress /\ LastEvent.total = Absent) =>
    /\ ShownMessage = LastEvent.message
    /\ ~ShownNumeric

\* a progress event that takes the snapshot branch of the progress handler
Countable(e) ==
  e.type = "progress" /\ e.step = "processing_journeys" /\ e.total \notin {Absent, 0}

\* the snapshot object made from a progress event
SnapshotOf(e) ==
  [current |-> e.current, total |-> e.total, percentage |-> e.percentage,
   message |-> e.message]

C22_CompleteDeliversData ==
  (events # <<>> /\ LastEvent.type = "complete") =>
    /\ histogramData = LastEvent.data
    /\ pc = "read" =>
         /\ loadingProgress = Null
         /\ realTimeProgress = NoProgress
         /\ SubSeq(updates, Len(updates) - 2, Len(updates))
              = <<Update(297, LastEvent.data, <<>>), Update(298, Null, <<>>),
                  Update(299, Null, <<>>)>>

\* a complete event arrived after a snapshot had been set
C22_Witness ==
  /\ pc = "read"
  /\ events = <<EventOf("PJ1"), EventOf("CA")>>
  /\ histogramData = "{x:1}"
  /\ realTimeProgress = NoProgress /\ loadingProgress = Null

\* C23: chunks are handled one at a time in arrival order.  Whenever a read
\* is outstanding, every byte delivered by the earlier reads has been
\* handled: it belongs to a record that has been dispatched, or is in the
\* line buffer, or is retained by the decoder; and the events dispatched are
\* those of the arrived records in the order of the body.  A read is
\* outstanding only while the function is suspended in the loop.
C23_ChunksOneAtATime ==
  pc = "read" =>
    /\ sent = Len(Body(Arrived)) + Len(Encode(buffer)) + Len(pending)
    /\ Len(events) = Len(EventsOf(Arrived))
    /\ \A i \in 1..Len(events) : events[i] = EventsOf(Arrived)[i]
    /\ loading /\ exit = "none"

\* two records have been dispatched and a third is partly in the buffer
C23_Witness ==
  /\ pc = "read"
  /\ names = <<"PJ1", "CA", "PL">>
  /\ events = <<EventOf("PJ1"), EventOf("CA")>>
  /\ pending = <<LeadByte>>
  /\ Len(buffer) = 3

\* Number.prototype.toFixed(1) of a whole number: its digits and one decimal
toFixed1(x) == <<x, 0>>

\* ({realTimeProgress.percentage?.toFixed(1)}%)
ShownPercentage == toFixed1(realTimeProgress.percentage)

\* C24: the percentage shown is recomputed as 100*current/total, also when
\* the event's percentage field disagrees.
C24_PercentageRecomputed ==
  (pc = "read" /\ ShownNumeric) =>
    /\ realTimeProgress.percentage * realTimeProgress.total = 100 * realTimeProgress.current
    /\ ShownPercentage = toFixed1((100 * realTimeProgress.current) \div realTimeProgress.total)

\* C25: whenever fetchJourneyAnalysis is not running, whichever way it was
\* left, loading is false and loadingProgress and realTimeProgress are null,
\* finally having made its three setter calls last.
C25_EveryExitCleansUp ==
  pc = "idle" =>
    /\ ~loading /\ loadingProgress = Null /\ realTimeProgress = NoProgress
    /\ exit \in {"none", "done", "httpStatus", "fetchRejected", "readRejected", "thrown"}
    /\ exit # "none" =>
         SubSeq(updates, Len(updates) - 2, Len(updates)) = FinallyUpdates

\* the connection broke while a snapshot was shown
C25_Witness ==
  /\ Finished /\ exit = "readRejected"
  /\ events = <<EventOf("PJ1")>>
  /\ realTimeProgress = NoProgress /\ ~loading /\ loadingProgress = Null

\* C27: a session that ends in failure has not modified histogramData.
C27_FailureKeepsResult ==
  (Finished /\ error # <<>>) =>
    \A i \in 1..Len(updates) : updates[i].at # 297

\* The run with the scheduling the platform gives: the promise of fetch
\* settles.  Nothing obliges the server to close the connection or the
\* network to fail, so the steps of the reader are under no fairness.
SpecLive ==
  /\ Init /\ [][Next]_vars
  /\ WF_vars(FetchRejects \/ ResponseNotOk \/ ResponseOk)

\* C26: once a terminal event has been handled, and everything the server
\* wrote has been delivered, the function eventually finishes (loading false,
\* buttons enabled), whether or not the server closes the connection.
C26_FinishesAfterTerminal ==
  (pc = "read" /\ HasTerminalEvent(events) /\ wire = <<>>) ~> (pc = "idle" /\ ~loading)

\* a handler of an action button is between its first and its last statement
JourneyInFlight == pc # "idle"
AiInFlight == aipc # "idle"

\* C28: at most one of fetchJourneyAnalysis and fetchAiAnalysis is in flight;
\* while one is, its loading flag is set, both buttons are disabled and
\* neither handler can be started.
C28_OneHandlerInFlight ==
  /\ ~(JourneyInFlight /\ AiInFlight)
  /\ JourneyInFlight = loading
  /\ AiInFlight = aiLoading
  /\ (JourneyInFlight \/ AiInFlight) =>
       /\ ButtonsDisabled
       /\ ~ENABLED fetchJourneyAnalysis
       /\ ~ENABLED fetchAiAnalysis

\* the AI request is in flight after a journey analysis had delivered a result
C28_Witness ==
  /\ aipc = "json" /\ aiLoading /\ ~loading
  /\ histogramData = "{x:1}"
  /\ ButtonsDisabled

\* the timeouts of a field that are pending
PendingTimers(f) == {t \in timers : t.field = f}

\* C29: every field has at most one pending timeout, the one its ref names,
\* set for the value typed last; and every request a field sent carries the
\* value the field held when it was sent.
C29_DebounceSendsLastValue ==
  /\ \A f \in Fields :
       /\ Cardinality(PendingTimers(f)) <= 1
       /\ \A t \in PendingTimers(f) : t.id = timerRef[f] /\ t.value = inputValue[f]
  /\ \A i \in 1..Len(issued) : issued[i].query = issued[i].typed

\* "E" then "Q" were typed in the from field before any timeout expired; one
\* timeout was pending, for "Q", and it has sent the only request
C29_Witness ==
  /\ inputValue["from"] = "Q"
  /\ nextTimer = 3
  /\ timerRef["from"] = 2
  /\ timers = {}
  /\ issued = <<[field |-> "from", query |-> "Q", typed |-> "Q"]>>

\* the requests a field has sent, by their position in issued
RequestsOf(f) == {i \in 1..Len(issued) : issued[i].field = f}

\* the request a field sent last
LatestOf(f) == CHOOSE i \in RequestsOf(f) : \A j \in RequestsOf(f) : j <= i

\* nothing of the field is pending or in flight, the field is not empty and
\* the data of its latest request has arrived
Settled(f) ==
  /\ RequestsOf(f) # {}
  /\ PendingTimers(f) = {}
  /\ \A l \in lookups : l.field # f
  /\ inputValue[f] # ""
  /\ \E k \in 1..Len(applied[f]) : applied[f][k] = LatestOf(f)

\* C30: when the lookups of a field have all been answered, in whatever
\* order, the suggestions and the hint displayed are those of the query sent
\* last; a late response to an older query has not overwritten them.
C30_LatestQueryWins ==
  \A f \in Fields :
    Settled(f) =>
      LET data == Suggest(issued[LatestOf(f)].query)
      IN  /\ suggestions[f] = data
          /\ hint[f] = IF Len(data) > 0 THEN data[1] ELSE ""

\* C31: while a station input is empty after it was cleared, the field's
\* hint and suggestion list are empty, also when a lookup sent before the
\* clear is answered afterwards.  (An input that is empty gets no lookup from
\* a focus event, and only a change to a non-empty value ends the condition.)
C31_ClearedStaysEmpty ==
  \A f \in Fields :
    inputValue[f] = "" => (hint[f] = "" /\ suggestions[f] = <<>>)
====
